---- MODULE Spec2Model ----
(***************************************************************************)
(* Simulation-based combinational equivalence checking                     *)
(* (include/mockturtle/algorithms/simulation_cec.hpp).                     *)
(*                                                                         *)
(* The entry point simulation_cec, the driver simulation_cec_impl::run,    *)
(* the split-variable calculator and the round simulator tt_simulator are  *)
(* translated from the source.  The miter and the generic simulation       *)
(* engine live in headers that are not part of the source tree at hand     *)
(* and are modelled from their documented contracts.                       *)
(***************************************************************************)
EXTENDS Integers, Sequences, FiniteSets, TLC

VARIABLES
  shiftUB,      \* what this build does with a shift count >= 32: "mask" | "zero"
  pc,           \* position inside simulation_cec
  ntk1, ntk2,   \* the two networks handed to simulation_cec
  msize,        \* node count (size()) of the network the miter produces
  pstSupplied,  \* pst != nullptr
  pstVal,       \* the caller's simulation_cec_stats object
  st,           \* the local simulation_cec_stats of simulation_cec
  result,       \* the local bool result of simulation_cec
  ret,          \* returned std::optional<bool>: "pending"|"nullopt"|"true"|"false"
  ntk_miter,    \* std::optional<Ntk> produced by miter
  round,        \* loop variable `rounds` of run()
  tt_po,        \* truth tables of the primary outputs in the current round
  po_idx,       \* position of the range-for over tt_po
  simLog,       \* history: round indices handed to simulate, in order
  inspected,    \* history: <<round, output, non-zero?>> for every table tested
  stAtStart,    \* history: the stats as stored before the first round
  c_pc,         \* calculator harness: "idle" | "start" | "split" | "done"
  c_pis,        \* calculator harness: num_pis
  c_nodes,      \* calculator harness: num_nodes (32-bit word)
  c_split,      \* calculator harness: returned split_var
  c_rounds      \* calculator harness: 1 << (num_pis - split_var) (32-bit word)

vars == <<shiftUB, pc, ntk1, ntk2, msize, pstSupplied, pstVal, st, result, ret,
          ntk_miter, round, tt_po, po_idx, simLog, inspected, stAtStart,
          c_pc, c_pis, c_nodes, c_split, c_rounds>>

mainVars == <<pc, ntk1, ntk2, msize, pstSupplied, pstVal, st, result, ret,
              ntk_miter, round, tt_po, po_idx, simLog, inspected, stAtStart>>

calcVars == <<c_pc, c_pis, c_nodes, c_split, c_rounds>>

(***************************************************************************)
(* Bounds of the model.                                                    *)
(***************************************************************************)
\* The round loop is followed for at most this many rounds.
MaxRound == 4
\* Widest truth table the model builds: 2^MaxSplitVar positions.
MaxSplitVar == 7

(***************************************************************************)
(* Program constants.                                                      *)
(***************************************************************************)
\* simulation_cec: `if ( ntk1.num_pis() > 40 ) return std::nullopt;`
MaxPis == 40
\* calculate_split_var: `if(num_pis <= 6u)`
SmallPis == 6
\* calculate_split_var: `uint32_t m = 7;`
FirstM == 7

(***************************************************************************)
(* uint32_t.  TLC's integers stop at 2^31 - 1, so a 32-bit unsigned word   *)
(* is the pair <<hi, lo>> of its 16-bit halves; all arithmetic is modulo   *)
(* 2^32 as in C++.                                                         *)
(***************************************************************************)
Half16 == 2 ^ 16

U32(k) == <<k \div Half16, k % Half16>>

Zero32 == <<0, 0>>

Add32(x, y) ==
  LET l == x[2] + y[2]
  IN  <<(x[1] + y[1] + (l \div Half16)) % Half16, l % Half16>>

\* x * y modulo 2^16, for 16-bit x and y, without leaving TLC's integers.
MulLow16(x, y) == ((x % 256) * y + (((x \div 256) * y) % 256) * 256) % Half16

\* The full product of two 16-bit values, as a 32-bit word.
MulFull16(x, y) ==
  LET t1 == (x % 256) * y
      t2 == (x \div 256) * y
      l  == (t2 % 256) * 256 + t1
  IN  <<((t2 \div 256) + (l \div Half16)) % Half16, l % Half16>>

Mul32(a, b) ==
  LET p == MulFull16(a[2], b[2])
  IN  <<(p[1] + MulLow16(a[1], b[2]) + MulLow16(a[2], b[1])) % Half16, p[2]>>

Le32(x, y) == x[1] < y[1] \/ (x[1] = y[1] /\ x[2] <= y[2])

Lt32(x, y) == x[1] < y[1] \/ (x[1] = y[1] /\ x[2] < y[2])

\* 2^s as a 32-bit word, 0 <= s <= 31.
Pow2Word(s) == IF s < 16 THEN <<0, 2 ^ s>> ELSE <<2 ^ (s - 16), 0>>

\* The C++ expression `1 << s` with s a uint32_t, converted to uint32_t.
\* s is given as the mathematical difference of two uint32_t values; a
\* negative s stands for the wrapped count 2^32 + s.  A count below 32 is
\* defined (1 << 31 converts to 2^31); a count of 32 or more is undefined
\* behaviour: the build either masks the count to five bits or yields 0.
ShiftLeftOne(s) ==
  IF 0 <= s /\ s < 32 THEN Pow2Word(s)
  ELSE IF shiftUB = "mask" THEN Pow2Word(s % 32)
  ELSE Zero32

\* The C++ expression `x >> s` for a uint32_t x below 2^31 (here a round
\* index) and a uint32_t count s; counts of 32 or more as in ShiftLeftOne.
ShiftRight(x, s) ==
  LET c == IF s < 32 THEN s ELSE s % 32
  IN  IF s >= 32 /\ shiftUB = "zero" THEN 0
      ELSE IF c >= 31 THEN 0
      ELSE x \div (2 ^ c)

(***************************************************************************)
(* Split-variable calculator.                                              *)
(***************************************************************************)
\* ( 32 + ( 1 << (m - 3)) * num_nodes ) <= ( 1 << 29 ), in unsigned 32-bit
\* arithmetic: the int `1 << (m - 3)` is converted to unsigned by the product.
BoundHolds(m, num_nodes) ==
  Le32(Add32(U32(32), Mul32(ShiftLeftOne(m - 3), num_nodes)), Pow2Word(29))

RECURSIVE SplitLoop(_, _, _)
\* while(m <= num_pis && bound) m++;  yields the final m.
SplitLoop(m, num_pis, num_nodes) ==
  IF m <= num_pis /\ BoundHolds(m, num_nodes)
  THEN SplitLoop(m + 1, num_pis, num_nodes)
  ELSE m

\* calculate_split_var without the branch for small input counts.
calculate_split_var_no_small_case(num_pis, num_nodes) ==
  SplitLoop(FirstM, num_pis, num_nodes) - 1

calculate_split_var(num_pis, num_nodes) ==
  IF num_pis <= SmallPis THEN num_pis
  ELSE SplitLoop(FirstM, num_pis, num_nodes) - 1

\* _st.rounds = 1 << (num_pis - _st.split_var);
RoundsFor(num_pis, split_var) == ShiftLeftOne(num_pis - split_var)

(***************************************************************************)
(* Truth tables (kitty::dynamic_truth_table over split_var variables): the *)
(* set of positions 0 .. 2^split_var - 1 at which the bit is 1.            *)
(***************************************************************************)
Positions(split_var) == 0 .. (2 ^ split_var - 1)

Bit(x, i) == (x \div (2 ^ i)) % 2

\* kitty::dynamic_truth_table tt( _split_var ): all bits 0.
EmptyTT == {}

\* operator~ on a table of split_var variables.
Complement(split_var, tt) == Positions(split_var) \ tt

\* kitty::create_nth_var( tt, index )
create_nth_var(split_var, index) == {p \in Positions(split_var) : Bit(p, index) = 1}

\* kitty::is_const0
is_const0(tt) == tt = {}

(***************************************************************************)
(* tt_simulator( split_var, round )                                        *)
(***************************************************************************)
\* compute_constant with the two branches exchanged.
compute_constant_swapped(split_var, value) ==
  IF value THEN EmptyTT ELSE Complement(split_var, EmptyTT)

compute_constant(split_var, value) ==
  IF value THEN Complement(split_var, EmptyTT) ELSE EmptyTT

compute_pi(split_var, rnd, index) ==
  IF index < split_var
  THEN create_nth_var(split_var, index)
  ELSE LET val == ShiftRight(rnd, index - split_var) % 2
       IN  IF val = 0 THEN Complement(split_var, EmptyTT) ELSE EmptyTT

compute_not(split_var, value) == Complement(split_var, value)

\* run(), line 131: `if(kitty::is_const0(it) == 0)`
IsNonZero(tt) == ~is_const0(tt)

(***************************************************************************)
(* Logic networks, as far as the equivalence check sees them.  A network   *)
(* has num_pis primary inputs and a sequence pos of primary-output         *)
(* signals.  A signal points to the constant node or to a gate and may be  *)
(* complemented; a gate's function is its on-set, the set of input         *)
(* assignments on which it is 1, an assignment being the set of primary    *)
(* inputs that are 1.                                                      *)
(***************************************************************************)
AllOnes(n) == 0 .. (n - 1)

\* The assignments gates of the model may have in their on-sets.  Beside
\* all-0 and all-1 there is one that differs from all-1 in the first input
\* past a split of SmallPis, and one that differs in the last input.
Probes(n) ==
  {{}, AllOnes(n), AllOnes(n) \ {SmallPis}, AllOnes(n) \ {n - 1}}

ConstSig(neg) == [kind |-> "const", on |-> {}, neg |-> neg]

GateSig(on, neg) == [kind |-> "gate", on |-> on, neg |-> neg]

Signals(n) ==
  {ConstSig(FALSE), ConstSig(TRUE), GateSig({}, FALSE), GateSig({}, TRUE)}
  \cup {GateSig({a}, FALSE) : a \in Probes(n)}

Network(n, pos) == [num_pis |-> n, pos |-> pos]

Networks(n) ==
  {Network(n, <<s>>) : s \in Signals(n)}
  \cup {Network(n, <<s, t>>) :
          s \in {ConstSig(FALSE), GateSig({{}}, FALSE)},
          t \in {ConstSig(FALSE), GateSig({AllOnes(n)}, FALSE)}}

\* Value of a signal under an input assignment.
Val(sig, a) == ((sig.kind = "gate") /\ (a \in sig.on)) # sig.neg

\* The assignments over which two networks of the model are compared.  Up to
\* SmallPis inputs these are all of them.  Above, on-sets hold at most one
\* assignment, taken from Probes(n), which has three or more members: two
\* signals that differ anywhere differ on a member of Probes(n).
Universe(n) == IF n <= SmallPis THEN SUBSET AllOnes(n) ELSE Probes(n)

SameShape(a, b) == a.num_pis = b.num_pis /\ Len(a.pos) = Len(b.pos)

\* Some output differs on some input assignment.
Differ(a, b) ==
  \E i \in 1 .. Len(a.pos) : \E x \in Universe(a.num_pis) :
     Val(a.pos[i], x) # Val(b.pos[i], x)

(***************************************************************************)
(* miter( ntk1, ntk2 ): empty when the shapes are incompatible, otherwise  *)
(* the network over the same inputs whose output i is the XOR of output i  *)
(* of both networks.  size is the node count of the combined network.      *)
(***************************************************************************)
NoNetwork == [has_value |-> FALSE, num_pis |-> 0, size |-> Zero32, pos |-> <<>>]

miter(a, b, size) ==
  IF ~SameShape(a, b) THEN NoNetwork
  ELSE [has_value |-> TRUE, num_pis |-> a.num_pis, size |-> size,
        pos |-> [i \in 1 .. Len(a.pos) |-> <<a.pos[i], b.pos[i]>>]]

(***************************************************************************)
(* simulate<kitty::dynamic_truth_table>( ntk, sim ): evaluates every node  *)
(* position by position, leaves through the simulator, complemented        *)
(* signals through compute_not, and returns one table per primary output.  *)
(***************************************************************************)
\* The input assignment simulated at position p of round rnd.
AssignmentAt(n, split_var, rnd, p) ==
  {i \in 0 .. (n - 1) : p \in compute_pi(split_var, rnd, i)}

\* Position p of round rnd simulates exactly the assignment a.
Realises(n, split_var, rnd, p, a) ==
  \A i \in 0 .. (n - 1) : (i \in a) <=> (p \in compute_pi(split_var, rnd, i))

\* A gate is 1 at the positions whose assignment is in its on-set.
NodeTT(sig, n, split_var, rnd) ==
  IF sig.kind = "const" THEN compute_constant(split_var, FALSE)
  ELSE {p \in Positions(split_var) :
          \E a \in sig.on : Realises(n, split_var, rnd, p, a)}

SignalTT(sig, n, split_var, rnd) ==
  IF sig.neg THEN compute_not(split_var, NodeTT(sig, n, split_var, rnd))
  ELSE NodeTT(sig, n, split_var, rnd)

XorTT(x, y) == (x \ y) \cup (y \ x)

simulate(ntk, split_var, rnd) ==
  [i \in 1 .. Len(ntk.pos) |->
     XorTT(SignalTT(ntk.pos[i][1], ntk.num_pis, split_var, rnd),
           SignalTT(ntk.pos[i][2], ntk.num_pis, split_var, rnd))]

(***************************************************************************)
(* Inputs of the model.                                                    *)
(***************************************************************************)
PiChoices == {1, 2, 6, 7, 8, 38, 40, 41}

\* Node counts: a small network, and the two counts on either side of the
\* point where the memory bound first fails at m = 7 (2^25 - 2 and 2^25 - 1).
NodeChoices == {U32(50), <<511, 65534>>, <<511, 65535>>}

NoStats == [split_var |-> 0, rounds |-> Zero32]

\* The cap test off by one.
TooManyPisOffByOne(n) == n > MaxPis + 1

TooManyPis(n) == n > MaxPis

MainInit ==
  /\ shiftUB \in {"mask", "zero"}
  /\ pc = "idle"
  /\ ntk1 = Network(0, <<>>)
  /\ ntk2 = Network(0, <<>>)
  /\ msize = Zero32
  /\ pstSupplied = FALSE
  /\ pstVal = NoStats
  /\ st = NoStats
  /\ result = FALSE
  /\ ret = "pending"
  /\ ntk_miter = NoNetwork
  /\ round = 0
  /\ tt_po = <<>>
  /\ po_idx = 0
  /\ simLog = <<>>
  /\ inspected = <<>>
  /\ stAtStart = NoStats

Init ==
  /\ MainInit
  /\ c_pc = "idle"
  /\ c_pis = 0
  /\ c_nodes = Zero32
  /\ c_split = 0
  /\ c_rounds = Zero32

(***************************************************************************)
(* simulation_cec( ntk1, ntk2, pst )                                       *)
(***************************************************************************)
\* The call: arguments bound, `simulation_cec_stats st; bool result = false;`
Call ==
  /\ pc = "idle"
  /\ \E n \in PiChoices, size \in NodeChoices, supplied \in BOOLEAN :
       \E a \in Networks(n), b \in Networks(n) \cup {Network(n + 1, <<ConstSig(FALSE)>>)} :
          /\ (~TooManyPis(n)) => calculate_split_var(n, size) <= MaxSplitVar
          /\ ntk1' = a
          /\ ntk2' = b
          /\ msize' = size
          /\ pstSupplied' = supplied
  /\ st' = NoStats
  /\ result' = FALSE
  /\ pc' = "entry"
  /\ UNCHANGED <<shiftUB, pstVal, ret, ntk_miter, round, tt_po, po_idx, simLog,
                 inspected, stAtStart>>
  /\ UNCHANGED calcVars

\* if ( ntk1.num_pis() > 40 ) return std::nullopt;
ReturnTooManyPis ==
  /\ pc = "entry"
  /\ TooManyPis(ntk1.num_pis)
  /\ ret' = "nullopt"
  /\ pc' = "done"
  /\ UNCHANGED <<shiftUB, ntk1, ntk2, msize, pstSupplied, pstVal, st, result,
                 ntk_miter, round, tt_po, po_idx, simLog, inspected, stAtStart>>
  /\ UNCHANGED calcVars

\* auto ntk_miter = miter<Ntk>( ntk1, ntk2 ); if ( ntk_miter.has_value() ) ...
BuildMiter ==
  /\ pc = "entry"
  /\ ~TooManyPis(ntk1.num_pis)
  /\ ntk_miter' = miter(ntk1, ntk2, msize)
  /\ pc' = IF ntk_miter'.has_value THEN "run" ELSE "report"
  /\ UNCHANGED <<shiftUB, ntk1, ntk2, msize, pstSupplied, pstVal, st, result, ret,
                 round, tt_po, po_idx, simLog, inspected, stAtStart>>
  /\ UNCHANGED calcVars

\* run(), lines 118-124: the stats are stored, the loop variable starts at 0.
RunStart ==
  /\ pc = "run"
  /\ LET split == calculate_split_var(ntk_miter.num_pis, ntk_miter.size)
     IN  st' = [split_var |-> split, rounds |-> RoundsFor(ntk_miter.num_pis, split)]
  /\ stAtStart' = st'
  /\ round' = 0
  /\ pc' = "loop"
  /\ UNCHANGED <<shiftUB, ntk1, ntk2, msize, pstSupplied, pstVal, result, ret,
                 ntk_miter, tt_po, po_idx, simLog, inspected>>
  /\ UNCHANGED calcVars

\* rounds < _st.rounds: one round is simulated.
SimulateRound ==
  /\ pc = "loop"
  /\ Lt32(U32(round), st.rounds)
  /\ round < MaxRound
  /\ tt_po' = simulate(ntk_miter, st.split_var, round)
  /\ po_idx' = 1
  /\ simLog' = Append(simLog, round)
  /\ pc' = "inspect"
  /\ UNCHANGED <<shiftUB, ntk1, ntk2, msize, pstSupplied, pstVal, st, result, ret,
                 ntk_miter, round, inspected, stAtStart>>
  /\ UNCHANGED calcVars

\* The output scan with the verdict recorded but no return from the loop.
InspectOutputNoReturn ==
  /\ pc = "inspect"
  /\ po_idx <= Len(tt_po)
  /\ inspected' = Append(inspected, <<round, po_idx, IsNonZero(tt_po[po_idx])>>)
  /\ result' = IF IsNonZero(tt_po[po_idx]) THEN FALSE ELSE result
  /\ po_idx' = po_idx + 1
  /\ UNCHANGED pc
  /\ UNCHANGED <<shiftUB, ntk1, ntk2, msize, pstSupplied, pstVal, st, ret,
                 ntk_miter, round, tt_po, simLog, stAtStart>>
  /\ UNCHANGED calcVars

\* for(auto& it : tt_po) if(kitty::is_const0(it) == 0) return false;
InspectOutput ==
  /\ pc = "inspect"
  /\ po_idx <= Len(tt_po)
  /\ inspected' = Append(inspected, <<round, po_idx, IsNonZero(tt_po[po_idx])>>)
  /\ IF IsNonZero(tt_po[po_idx])
     THEN /\ result' = FALSE
          /\ pc' = "report"
          /\ UNCHANGED po_idx
     ELSE /\ po_idx' = po_idx + 1
          /\ UNCHANGED <<result, pc>>
  /\ UNCHANGED <<shiftUB, ntk1, ntk2, msize, pstSupplied, pstVal, st, ret,
                 ntk_miter, round, tt_po, simLog, stAtStart>>
  /\ UNCHANGED calcVars

\* The range-for is exhausted: rounds++.
NextRound ==
  /\ pc = "inspect"
  /\ po_idx > Len(tt_po)
  /\ round' = round + 1
  /\ pc' = "loop"
  /\ UNCHANGED <<shiftUB, ntk1, ntk2, msize, pstSupplied, pstVal, st, result, ret,
                 ntk_miter, tt_po, po_idx, simLog, inspected, stAtStart>>
  /\ UNCHANGED calcVars

\* The loop condition fails: return true.
RunReturnTrue ==
  /\ pc = "loop"
  /\ ~Lt32(U32(round), st.rounds)
  /\ result' = TRUE
  /\ pc' = "report"
  /\ UNCHANGED <<shiftUB, ntk1, ntk2, msize, pstSupplied, pstVal, st, ret,
                 ntk_miter, round, tt_po, po_idx, simLog, inspected, stAtStart>>
  /\ UNCHANGED calcVars

\* The report with the stats written only for a positive verdict.
ReportStatsOnlyWhenEquivalent ==
  /\ pc = "report"
  /\ pstVal' = IF pstSupplied /\ result THEN st ELSE pstVal
  /\ ret' = IF result THEN "true" ELSE "false"
  /\ pc' = "done"
  /\ UNCHANGED <<shiftUB, ntk1, ntk2, msize, pstSupplied, st, result,
                 ntk_miter, round, tt_po, po_idx, simLog, inspected, stAtStart>>
  /\ UNCHANGED calcVars

\* if ( pst ) *pst = st;  return result;
Report ==
  /\ pc = "report"
  /\ pstVal' = IF pstSupplied THEN st ELSE pstVal
  /\ ret' = IF result THEN "true" ELSE "false"
  /\ pc' = "done"
  /\ UNCHANGED <<shiftUB, ntk1, ntk2, msize, pstSupplied, st, result,
                 ntk_miter, round, tt_po, po_idx, simLog, inspected, stAtStart>>
  /\ UNCHANGED calcVars

Next ==
  \/ Call
  \/ ReturnTooManyPis
  \/ BuildMiter
  \/ RunStart
  \/ SimulateRound
  \/ InspectOutput
  \/ NextRound
  \/ RunReturnTrue
  \/ Report

Spec == Init /\ [][Next]_vars

(***************************************************************************)
(* The calculator on its own: calculate_split_var and the round count for  *)
(* every input count up to the cap and node counts across the 32-bit       *)
(* range (50, 2^24, 2^25 - 2, 2^25 - 1, 40 000 000, 2^28, 2^29, 2^31,      *)
(* 2^32 - 1).                                                              *)
(***************************************************************************)
CalcNodeChoices ==
  NodeChoices \cup {<<256, 0>>, <<610, 23040>>, <<4096, 0>>, <<8192, 0>>,
                    <<32768, 0>>, <<65535, 65535>>}

InitCalc ==
  /\ MainInit
  /\ c_pc = "start"
  /\ c_pis \in 0 .. MaxPis
  /\ c_nodes \in CalcNodeChoices
  /\ c_split = 0
  /\ c_rounds = Zero32

\* _st.split_var = calculate_split_var(num_pis, num_nodes);
CalcSplit ==
  /\ c_pc = "start"
  /\ c_split' = calculate_split_var(c_pis, c_nodes)
  /\ c_pc' = "split"
  /\ UNCHANGED <<shiftUB, c_pis, c_nodes, c_rounds>>
  /\ UNCHANGED mainVars

\* _st.rounds = 1 << (num_pis - _st.split_var);
CalcRounds ==
  /\ c_pc = "split"
  /\ c_rounds' = RoundsFor(c_pis, c_split)
  /\ c_pc' = "done"
  /\ UNCHANGED <<shiftUB, c_pis, c_nodes, c_split>>
  /\ UNCHANGED mainVars

NextCalc == CalcSplit \/ CalcRounds

SpecCalc == InitCalc /\ [][NextCalc]_vars

(***************************************************************************)
(* Properties.                                                             *)
(***************************************************************************)
\* The driver ran in this call: the miter was built and run() was entered.
DriverRan == ntk_miter.has_value /\ pc \in {"loop", "inspect", "report", "done"}

Returned == pc = "done"

\* w = 2^k, for a 32-bit word w: no word equals 2^k for k >= 32.
IsPow2(w, k) == 0 <= k /\ k < 32 /\ w = Pow2Word(k)

\* The round count as a number, when the model follows all its rounds.
RoundsFollowed == st.rounds[1] = 0 /\ st.rounds[2] <= MaxRound

\* C1: two networks of compatible shape with at most 40 inputs that differ on
\* some input assignment make simulation_cec return false.
C1_DifferingReturnsFalse ==
  (Returned /\ DriverRan /\ Differ(ntk1, ntk2)) => ret = "false"

\* C2: two networks of compatible shape with at most 40 inputs that compute
\* the same function make simulation_cec return true: no output table is ever
\* non-zero and the loop runs through all its rounds.
C2_EquivalentReturnsTrue ==
  (DriverRan /\ ~Differ(ntk1, ntk2)) =>
     /\ \A i \in 1 .. Len(tt_po) : is_const0(tt_po[i])
     /\ \A k \in 1 .. Len(inspected) : ~inspected[k][3]
     /\ Returned => (ret = "true" /\ U32(round) = st.rounds /\ Len(simLog) = round)

C2_Witness ==
  /\ Returned /\ DriverRan
  /\ ~Differ(ntk1, ntk2)
  /\ ntk1 # ntk2
  /\ Len(simLog) = 4
  /\ ret = "true"

\* C3: with at most 40 inputs and a miter that cannot be built,
\* simulation_cec returns no value.
C3_MiterFailureIndeterminate ==
  (Returned /\ ntk1.num_pis <= MaxPis /\ ~SameShape(ntk1, ntk2)) => ret = "nullopt"

\* C4: with more than 40 inputs simulation_cec returns no value, builds no
\* miter and simulates no round; with at most 40 inputs and a miter that was
\* built the returned value is a boolean.
C4_InputCap ==
  /\ (pc # "idle" /\ ntk1.num_pis > MaxPis) =>
        /\ pc \in {"entry", "done"}
        /\ ~ntk_miter.has_value
        /\ simLog = <<>> /\ inspected = <<>>
        /\ Returned => ret = "nullopt"
  /\ (Returned /\ ntk1.num_pis <= MaxPis /\ ntk_miter.has_value) =>
        ret \in {"true", "false"}

C4_Witness ==
  Returned /\ ntk1.num_pis = MaxPis + 1 /\ ret = "nullopt" /\ ntk1 # ntk2

\* C5: after every call, whatever its outcome, the stats record of the caller
\* satisfies rounds = 2^(num_pis - split_var).
C5_RoundsIsPowerOfTwo ==
  (Returned /\ pstSupplied) =>
     IsPow2(pstVal.rounds, ntk1.num_pis - pstVal.split_var)

\* C6: when the driver runs and a stats location is supplied, the stats
\* written to it are those stored before the first round, whatever the
\* verdict: nothing modifies them in between.
C6_StatsStoredOnce ==
  DriverRan =>
     /\ st = stAtStart
     /\ st.split_var = calculate_split_var(ntk_miter.num_pis, ntk_miter.size)
     /\ (Returned /\ pstSupplied) => pstVal = stAtStart

C6_Witness ==
  /\ Returned /\ DriverRan /\ pstSupplied
  /\ ret = "false"
  /\ Len(simLog) >= 2
  /\ pstVal = stAtStart
  /\ pstVal # NoStats

\* C7: with at most 6 inputs, and any node count, split_var = num_pis and
\* rounds = 1, and exactly one round is simulated.
C7_SmallInputCount ==
  (DriverRan /\ ntk_miter.num_pis <= SmallPis) =>
     /\ st.split_var = ntk_miter.num_pis
     /\ st.rounds = U32(1)
     /\ Len(simLog) <= 1
     /\ pc \in {"inspect", "report", "done"} => simLog = <<0>>

C7_Witness ==
  /\ Returned /\ DriverRan
  /\ ntk_miter.num_pis = 2
  /\ ntk_miter.size = <<511, 65535>>
  /\ simLog = <<0>>
  /\ ret = "true"

\* C8: the assignments simulated in rounds 0 .. rounds-1 cover the input
\* space exactly once: every input assignment is simulated at exactly one
\* pair of a round and a position.
C8_RoundsCoverInputsOnce ==
  (pc = "loop" /\ round = 0 /\ RoundsFollowed) =>
     \A a \in Universe(ntk_miter.num_pis) :
        Cardinality({rp \in (0 .. (st.rounds[2] - 1)) \X Positions(st.split_var) :
                       Realises(ntk_miter.num_pis, st.split_var, rp[1], rp[2], a)}) = 1

\* C9: rounds are simulated in the order 0, 1, 2, ..., each once; a non-zero
\* output table ends the run with false at once: it is the last table
\* inspected and its round is the last round simulated.
C9_OrderedRoundsEarlyExit ==
  /\ \A k \in 1 .. Len(simLog) : simLog[k] = k - 1
  /\ \A k \in 1 .. Len(inspected) :
        /\ inspected[k][1] \in {simLog[j] : j \in 1 .. Len(simLog)}
        /\ \A j \in 1 .. (k - 1) : inspected[j] # inspected[k]
        /\ inspected[k][3] =>
              /\ k = Len(inspected)
              /\ inspected[k][1] = simLog[Len(simLog)]
              /\ pc \in {"report", "done"}
              /\ result = FALSE
              /\ Returned => ret = "false"

C9_Witness ==
  /\ Returned
  /\ ret = "false"
  /\ Len(simLog) = 4
  /\ Len(tt_po) = 2
  /\ inspected[Len(inspected)] = <<3, 1, TRUE>>

\* The memory bound at m with 1 << (m - 3) taken modulo 2^32.
BoundHolds32(m, num_nodes) ==
  Le32(Add32(U32(32),
             Mul32(IF m - 3 < 32 THEN Pow2Word(m - 3) ELSE Zero32, num_nodes)),
       Pow2Word(29))

\* The largest m in 7 .. num_pis with the bound holding from 7 up to m; 6 if
\* there is none.
LargestM(num_pis, num_nodes) ==
  LET ok == {m \in FirstM .. num_pis :
               \A k \in FirstM .. m : BoundHolds32(k, num_nodes)}
  IN  IF ok = {} THEN FirstM - 1
      ELSE CHOOSE m \in ok : \A k \in ok : k <= m

\* C10: for more than 6 inputs calculate_split_var returns the largest m in
\* 7 .. num_pis such that the bound, in 32-bit unsigned arithmetic, holds for
\* every value from 7 up to m, and 6 if it fails at 7; so split_var is
\* between 6 and num_pis and, when 7 or more, satisfies the bound.
C10_LargestAdmissibleSplit ==
  (c_pc \in {"split", "done"} /\ c_pis > SmallPis) =>
     /\ c_split = LargestM(c_pis, c_nodes)
     /\ FirstM - 1 <= c_split /\ c_split <= c_pis
     /\ c_split >= FirstM => BoundHolds32(c_split, c_nodes)

====
